---- MODULE Spec2Model ----
(***************************************************************************)
(* program_state_cache (rpcs3/Emu/RSX/Common/ProgramStateCache.h): the     *)
(* cache of compiled vertex programs, fragment programs and linked         *)
(* pipelines, and the extraction of the fragment constants.                *)
(*                                                                         *)
(* Guest memory is a set of regions, one per address, each a sequence of   *)
(* 16-byte qwords; a qword is a tuple of 16 bytes.  A pointer into guest   *)
(* memory (vm::base(addr)) is modelled by the qwords that follow it.       *)
(***************************************************************************)
EXTENDS Integers, Sequences, FiniteSets, TLC

VARIABLES
    memory,                   \* guest memory: address -> qwords at vm::base(address)
    m_next_id,                \* program_state_cache::m_next_id
    m_vertex_shader_cache,    \* vertex binary -> vertex_program_type
    m_fragment_shader_cache,  \* ucode copy -> fragment_program_type
    m_storage,                \* pipeline_key -> pipeline_storage_type
    recompile_log,            \* history: the calls of the recompile collaborators
    build_calls,              \* history: pipeline_key -> calls of build_pipeline
    call_history,             \* history: (vp, fp, props) -> what the first call returned
    ret,                      \* the operation that has just run, its arguments and
                              \* its result; "idle" once the caller has taken them
    fragment_sources,         \* history: where the compiled fragment binaries were read
    pc,                       \* thread -> the statement of getGraphicPipelineState it is at
    local,                    \* thread -> the arguments and locals of its call
    mutex,                    \* "unused" if the callers take no lock around a call,
                              \* else "free" or the thread that holds it
    unfinished                \* history: the keys whose collaborator call did not
                              \* complete, and has not completed since

vars == <<memory, m_next_id, m_vertex_shader_cache, m_fragment_shader_cache,
          m_storage, recompile_log, build_calls, call_history, ret,
          fragment_sources, pc, local, mutex, unfinished>>

cache_vars == <<m_next_id, m_vertex_shader_cache, m_fragment_shader_cache, m_storage>>

\* the histories kept by some specifications only
scenario_vars == <<fragment_sources, pc, local, mutex, unfinished>>

\* the threads that call into one program_state_cache
Threads == {"t1", "t2"}

-----------------------------------------------------------------------------
(* Bounds and input sets *)

\* m_next_id is a size_t; the model stops compiling once it reaches MaxIds.
MaxIds == 3

\* The qwords guest memory holds: a non-final instruction, two constants and a
\* final instruction.  Memory holds them by name; Bytes gives their 16 bytes.
Qwords == {"inst", "const", "const2", "end"}

Bytes(q) ==
    CASE q = "inst"   -> <<1, 2, 3, 4, 5, 6, 7, 8, 9, 10, 11, 12, 13, 14, 15, 16>>
           \* 0x3F800000, 0x40000000, 0x40400000, 0x40800000 as big-endian lanes
      [] q = "const"  -> <<63, 128, 0, 0, 64, 0, 0, 0, 64, 64, 0, 0, 64, 128, 0, 0>>
      [] q = "const2" -> <<17, 18, 19, 20, 21, 22, 23, 24, 25, 26, 27, 28, 29, 30, 31, 32>>
      [] q = "end"    -> <<33, 1, 34, 35, 36, 37, 38, 39, 40, 41, 42, 43, 44, 45, 46, 47>>

\* What guest memory holds at an address: a program, then whatever follows it.
Images ==
    { <<"const2", "const", "end">>,    \* 48 bytes, constants at offsets 0 and 16
      <<"end", "inst", "const">>,      \* 16 bytes, then trailing bytes
      <<"end", "const", "inst">> }     \* the same 16 bytes, other trailing bytes

Addrs == {"A", "B"}

\* RSXVertexProgram::data: one binary is a strict prefix of another.
VertexBinaries == { <<1>>, <<1, 2>> }

\* pipeline_properties values (opaque to the cache, compared with ==).
Properties == {1, 2}

\* Sizes of the destination span of fill_fragment_constans_buffer, in f32.
DstSizes == {0, 7, 8, 12}

-----------------------------------------------------------------------------
(* std::unordered_map *)

MapPut(f, k, v) == [x \in (DOMAIN f) \cup {k} |-> IF x = k THEN v ELSE f[x]]

EmptyMap == [x \in {} |-> 0]

RECURSIVE BitXor(_, _)
BitXor(a, b) ==
    IF a = 0 THEN b
    ELSE IF b = 0 THEN a
    ELSE (((a % 2) + (b % 2)) % 2) + (2 * BitXor(a \div 2, b \div 2))

RECURSIVE SumUpTo(_, _)
SumUpTo(s, n) == IF n = 0 THEN 0 ELSE s[n] + SumUpTo(s, n - 1)

-----------------------------------------------------------------------------
(* program_hash_util: the key functions of the two stage caches *)

vertex_program_hash(program) == SumUpTo(program, Len(program))

vertex_program_compare(binary1, binary2) ==
    /\ Len(binary1) = Len(binary2)
    /\ \A i \in 1..Len(binary1) : binary1[i] = binary2[i]

\* the end-of-program marker of an instruction: (inst.word[0] >> 8) & 1
is_end(q) == Bytes(q)[2] % 2 = 1

\* fragment_program_utils::is_constant: the qword holds a constant
is_constant(q) == q \in {"const", "const2"}

\* the bytes up to and including the first final instruction
get_fragment_program_ucode_size(ptr) ==
    16 * (CHOOSE n \in 1..Len(ptr) :
              /\ is_end(ptr[n])
              /\ \A m \in 1..(n - 1) : ~is_end(ptr[m]))

\* the hash adds up word[0] of every instruction
RECURSIVE SumQwords(_, _)
SumQwords(qs, n) ==
    IF n = 0 THEN 0 ELSE SumUpTo(Bytes(qs[n]), 4) + SumQwords(qs, n - 1)

fragment_program_hash(program) ==
    SumQwords(program, get_fragment_program_ucode_size(program) \div 16)

fragment_program_compare(binary1, binary2) ==
    LET size1 == get_fragment_program_ucode_size(binary1)
        size2 == get_fragment_program_ucode_size(binary2)
    IN  /\ size1 = size2
        /\ \A i \in 1..(size1 \div 16) : binary1[i] = binary2[i]

-----------------------------------------------------------------------------
(* backend_traits: the collaborators *)

recompile_vertex_program(rsx_vp, ID) == [id |-> ID]

\* the offsets of the constants embedded in the binary, in order
ConstantOffsets(ucode) ==
    LET RECURSIVE Walk(_)
        Walk(i) ==
            IF i > Len(ucode) THEN <<>>
            ELSE IF is_constant(ucode[i]) THEN <<16 * (i - 1)>> \o Walk(i + 1)
            ELSE Walk(i + 1)
    IN  Walk(1)

recompile_fragment_program(ucode, ID) ==
    [id |-> ID, FragmentConstantOffsetCache |-> ConstantOffsets(ucode)]

\* the n-th pipeline built for these programs and properties
build_pipeline(vertex_program, fragment_program, pipelineProperties, n) ==
    [vp |-> vertex_program.id, fp |-> fragment_program.id,
     properties |-> pipelineProperties, build |-> n]

-----------------------------------------------------------------------------
(* pipeline_key *)

\* a pipeline_key that leaves the properties out
pipeline_key_without_properties(vertex_program_id, fragment_program_id, properties) ==
    [vertex_program_id |-> vertex_program_id,
     fragment_program_id |-> fragment_program_id,
     properties |-> 0]

\* a key that leaves the fragment program out
pipeline_key_without_fragment_program(vertex_program_id, fragment_program_id, properties) ==
    [vertex_program_id |-> vertex_program_id,
     fragment_program_id |-> 0,
     properties |-> properties]

\* a key with the two identities in each other's place
pipeline_key_swapped(vertex_program_id, fragment_program_id, properties) ==
    [vertex_program_id |-> fragment_program_id,
     fragment_program_id |-> vertex_program_id,
     properties |-> properties]

pipeline_key(vertex_program_id, fragment_program_id, properties) ==
    [vertex_program_id |-> vertex_program_id,
     fragment_program_id |-> fragment_program_id,
     properties |-> properties]

pipeline_key_hash(key) ==
    BitXor(BitXor(BitXor(0, key.vertex_program_id), key.fragment_program_id),
           key.properties)

pipeline_key_compare(key1, key2) ==
    /\ key1.vertex_program_id = key2.vertex_program_id
    /\ key1.fragment_program_id = key2.fragment_program_id
    /\ key1.properties = key2.properties

\* a find that never finds
storage_find_never(storage, key) == {}

\* m_storage.find(key): the stored keys that hash and compare equal to key
storage_find(storage, key) ==
    {k \in DOMAIN storage :
        pipeline_key_hash(k) = pipeline_key_hash(key) /\ pipeline_key_compare(k, key)}

\* m_storage[key]: the slot of key, a new one if find(key) finds none
storage_slot(storage, key) ==
    IF storage_find(storage, key) = {} THEN key
    ELSE CHOOSE k \in storage_find(storage, key) : TRUE

-----------------------------------------------------------------------------
(* the stage caches *)

vertex_find(cache, data) ==
    {k \in DOMAIN cache :
        vertex_program_hash(k) = vertex_program_hash(data)
            /\ vertex_program_compare(k, data)}

vertex_slot(cache, data) ==
    IF vertex_find(cache, data) = {} THEN data
    ELSE CHOOSE k \in vertex_find(cache, data) : TRUE

fragment_find(cache, ptr) ==
    {k \in DOMAIN cache :
        fragment_program_hash(k) = fragment_program_hash(ptr)
            /\ fragment_program_compare(k, ptr)}

fragment_slot(cache, ptr) ==
    IF fragment_find(cache, ptr) = {} THEN ptr
    ELSE CHOOSE k \in fragment_find(cache, ptr) : TRUE

\* a copy of everything at the pointer, not of the scanned size
ucode_copy_whole(ptr) == ptr

\* malloc + memcpy of the first fragment_program_size bytes
ucode_copy(ptr) == SubSeq(ptr, 1, get_fragment_program_ucode_size(ptr) \div 16)

\* search_vertex_program handing out m_next_id without incrementing it
search_vertex_program_no_increment(cache, next_id, data) ==
    IF vertex_find(cache, data) # {}
    THEN [cache |-> cache, next_id |-> next_id,
          program |-> cache[CHOOSE k \in vertex_find(cache, data) : TRUE],
          preexisting |-> TRUE, recompiled |-> <<>>]
    ELSE LET new_shader == recompile_vertex_program(data, next_id)
         IN  [cache |-> MapPut(cache, vertex_slot(cache, data), new_shader),
              next_id |-> next_id,
              program |-> new_shader,
              preexisting |-> FALSE,
              recompiled |-> <<[stage |-> "vertex", binary |-> data, id |-> next_id]>>]

\* search_vertex_program keeping only the program compiled last
search_vertex_program_evicting(cache, next_id, data) ==
    IF vertex_find(cache, data) # {}
    THEN [cache |-> cache, next_id |-> next_id,
          program |-> cache[CHOOSE k \in vertex_find(cache, data) : TRUE],
          preexisting |-> TRUE, recompiled |-> <<>>]
    ELSE LET new_shader == recompile_vertex_program(data, next_id)
         IN  [cache |-> MapPut(EmptyMap, data, new_shader),
              next_id |-> next_id + 1,
              program |-> new_shader,
              preexisting |-> FALSE,
              recompiled |-> <<[stage |-> "vertex", binary |-> data, id |-> next_id]>>]

\* search_vertex_program taking an identity on a hit too
search_vertex_program_increment_on_hit(cache, next_id, data) ==
    IF vertex_find(cache, data) # {}
    THEN [cache |-> cache, next_id |-> next_id + 1,
          program |-> cache[CHOOSE k \in vertex_find(cache, data) : TRUE],
          preexisting |-> TRUE, recompiled |-> <<>>]
    ELSE LET new_shader == recompile_vertex_program(data, next_id)
         IN  [cache |-> MapPut(cache, vertex_slot(cache, data), new_shader),
              next_id |-> next_id + 1,
              program |-> new_shader,
              preexisting |-> FALSE,
              recompiled |-> <<[stage |-> "vertex", binary |-> data, id |-> next_id]>>]

\* The result of a search: the cache and the counter after it, the program
\* found or compiled, whether it was preexisting, and the recompile calls made.
search_vertex_program(cache, next_id, data) ==
    IF vertex_find(cache, data) # {}
    THEN [cache |-> cache, next_id |-> next_id,
          program |-> cache[CHOOSE k \in vertex_find(cache, data) : TRUE],
          preexisting |-> TRUE, recompiled |-> <<>>]
    ELSE LET new_shader == recompile_vertex_program(data, next_id)
         IN  [cache |-> MapPut(cache, vertex_slot(cache, data), new_shader),
              next_id |-> next_id + 1,
              program |-> new_shader,
              preexisting |-> FALSE,
              recompiled |-> <<[stage |-> "vertex", binary |-> data, id |-> next_id]>>]

\* search_fragment_program without the find: every call compiles
search_fragment_program_no_find(cache, next_id, ptr) ==
    LET fragment_program_ucode_copy == ucode_copy(ptr)
        new_shader == recompile_fragment_program(fragment_program_ucode_copy, next_id)
    IN  [cache |-> MapPut(cache, fragment_slot(cache, fragment_program_ucode_copy),
                          new_shader),
         next_id |-> next_id + 1,
         program |-> new_shader,
         preexisting |-> FALSE,
         recompiled |-> <<[stage |-> "fragment",
                          binary |-> fragment_program_ucode_copy,
                          id |-> next_id]>>]

\* search_fragment_program handing out m_next_id without incrementing it
search_fragment_program_no_increment(cache, next_id, ptr) ==
    IF fragment_find(cache, ptr) # {}
    THEN [cache |-> cache, next_id |-> next_id,
          program |-> cache[CHOOSE k \in fragment_find(cache, ptr) : TRUE],
          preexisting |-> TRUE, recompiled |-> <<>>]
    ELSE LET fragment_program_ucode_copy == ucode_copy(ptr)
             new_shader == recompile_fragment_program(fragment_program_ucode_copy, next_id)
         IN  [cache |-> MapPut(cache, fragment_slot(cache, fragment_program_ucode_copy),
                               new_shader),
              next_id |-> next_id,
              program |-> new_shader,
              preexisting |-> FALSE,
              recompiled |-> <<[stage |-> "fragment",
                               binary |-> fragment_program_ucode_copy,
                               id |-> next_id]>>]

\* search_fragment_program keeping only the program compiled last
search_fragment_program_evicting(cache, next_id, ptr) ==
    IF fragment_find(cache, ptr) # {}
    THEN [cache |-> cache, next_id |-> next_id,
          program |-> cache[CHOOSE k \in fragment_find(cache, ptr) : TRUE],
          preexisting |-> TRUE, recompiled |-> <<>>]
    ELSE LET fragment_program_ucode_copy == ucode_copy(ptr)
             new_shader == recompile_fragment_program(fragment_program_ucode_copy, next_id)
         IN  [cache |-> MapPut(EmptyMap, fragment_program_ucode_copy, new_shader),
              next_id |-> next_id + 1,
              program |-> new_shader,
              preexisting |-> FALSE,
              recompiled |-> <<[stage |-> "fragment",
                               binary |-> fragment_program_ucode_copy,
                               id |-> next_id]>>]

search_fragment_program(cache, next_id, ptr) ==
    IF fragment_find(cache, ptr) # {}
    THEN [cache |-> cache, next_id |-> next_id,
          program |-> cache[CHOOSE k \in fragment_find(cache, ptr) : TRUE],
          preexisting |-> TRUE, recompiled |-> <<>>]
    ELSE LET fragment_program_ucode_copy == ucode_copy(ptr)
             new_shader == recompile_fragment_program(fragment_program_ucode_copy, next_id)
         IN  [cache |-> MapPut(cache, fragment_slot(cache, fragment_program_ucode_copy),
                               new_shader),
              next_id |-> next_id + 1,
              program |-> new_shader,
              preexisting |-> FALSE,
              recompiled |-> <<[stage |-> "fragment",
                               binary |-> fragment_program_ucode_copy,
                               id |-> next_id]>>]

-----------------------------------------------------------------------------
(* getGraphicPipelineState *)

Count(f, k) == IF k \in DOMAIN f THEN f[k] ELSE 0

getGraphicPipelineState(vertexShader, fragmentShader, pipelineProperties) ==
    /\ ret.op = "idle"
    /\ \E vp_search \in
              {search_vertex_program(m_vertex_shader_cache, m_next_id, vertexShader)} :
       \E fp_search \in
              {search_fragment_program(m_fragment_shader_cache, vp_search.next_id,
                                       memory[fragmentShader])} :
       \E key \in {pipeline_key(vp_search.program.id, fp_search.program.id,
                                 pipelineProperties)} :
       \E hit \in {/\ fp_search.preexisting /\ vp_search.preexisting
                    /\ storage_find(m_storage, key) # {}} :
       \E slot \in {storage_slot(m_storage, key)} :
       \E storage \in
              {IF hit THEN m_storage
               ELSE MapPut(m_storage, slot,
                           build_pipeline(vp_search.program, fp_search.program,
                                          pipelineProperties, Count(build_calls, key) + 1))} :
       \E ucode \in {ucode_copy(memory[fragmentShader])} :
           /\ fp_search.next_id <= MaxIds
           /\ m_vertex_shader_cache' = vp_search.cache
           /\ m_fragment_shader_cache' = fp_search.cache
           /\ m_next_id' = fp_search.next_id
           /\ m_storage' = storage
           /\ recompile_log' = recompile_log \o vp_search.recompiled \o fp_search.recompiled
           /\ build_calls' = IF hit THEN build_calls
                             ELSE MapPut(build_calls, key, Count(build_calls, key) + 1)
           /\ call_history' =
                  IF <<vertexShader, ucode, pipelineProperties>> \in DOMAIN call_history
                  THEN call_history
                  ELSE MapPut(call_history, <<vertexShader, ucode, pipelineProperties>>,
                              [key |-> slot, pipeline |-> storage[slot]])
           /\ ret' = [op |-> "getGraphicPipelineState",
                      vp |-> vertexShader,
                      addr |-> fragmentShader,
                      fp |-> ucode,
                      props |-> pipelineProperties,
                      vp_id |-> vp_search.program.id,
                      fp_id |-> fp_search.program.id,
                      vp_preexisting |-> vp_search.preexisting,
                      fp_preexisting |-> fp_search.preexisting,
                      built |-> ~hit,
                      key |-> slot,
                      pipeline |-> storage[slot]]
           /\ UNCHANGED memory

-----------------------------------------------------------------------------
(* the guest overwrites the memory at an address *)

WriteMemory(addr, image) ==
    /\ ret.op = "idle"
    /\ memory[addr] # image
    /\ memory' = [memory EXCEPT ![addr] = image]
    /\ UNCHANGED <<cache_vars, recompile_log, build_calls, call_history, ret>>

\* the caller takes the result of the operation; operations run one at a time
Return ==
    /\ ret.op # "idle"
    /\ ret' = [op |-> "idle"]
    /\ UNCHANGED <<memory, cache_vars, recompile_log, build_calls, call_history>>

-----------------------------------------------------------------------------

(* get_transform_program, get_shader_program *)

\* I == end(): the code returns I->second, the value of the end iterator
get_transform_program_end(rsx_vp) ==
    /\ vertex_find(m_vertex_shader_cache, rsx_vp) = {}
    /\ \/ ret' = [op |-> "get_transform_program", vp |-> rsx_vp, outcome |-> "crashed"]
       \/ \E garbage \in {0, m_next_id} :
              ret' = [op |-> "get_transform_program", vp |-> rsx_vp,
                      outcome |-> "returned", program |-> [id |-> garbage]]

\* I != end(): the code falls through to the throw
get_transform_program_throw(rsx_vp) ==
    /\ vertex_find(m_vertex_shader_cache, rsx_vp) # {}
    /\ ret' = [op |-> "get_transform_program", vp |-> rsx_vp, outcome |-> "not_found"]

get_transform_program(rsx_vp) ==
    /\ ret.op = "idle"
    /\ \/ get_transform_program_end(rsx_vp)
       \/ get_transform_program_throw(rsx_vp)
    /\ UNCHANGED <<memory, cache_vars, recompile_log, build_calls, call_history>>

\* get_shader_program with the test of get_transform_program
get_shader_program_inverted(rsx_fp) ==
    /\ ret.op = "idle"
    /\ \E I \in {fragment_find(m_fragment_shader_cache, memory[rsx_fp])} :
           IF I = {}
           THEN ret' = [op |-> "get_shader_program", addr |-> rsx_fp,
                        outcome |-> "returned", program |-> [id |-> 0]]
           ELSE ret' = [op |-> "get_shader_program", addr |-> rsx_fp,
                        outcome |-> "not_found"]
    /\ UNCHANGED <<memory, cache_vars, recompile_log, build_calls, call_history>>

get_shader_program(rsx_fp) ==
    /\ ret.op = "idle"
    /\ \E I \in {fragment_find(m_fragment_shader_cache, memory[rsx_fp])} :
           IF I # {}
           THEN ret' = [op |-> "get_shader_program", addr |-> rsx_fp,
                        outcome |-> "returned",
                        program |-> m_fragment_shader_cache[CHOOSE k \in I : TRUE]]
           ELSE ret' = [op |-> "get_shader_program", addr |-> rsx_fp,
                        outcome |-> "not_found"]
    /\ UNCHANGED <<memory, cache_vars, recompile_log, build_calls, call_history>>

-----------------------------------------------------------------------------
(* get_fragment_constants_buffer_size, fill_fragment_constans_buffer *)

sizeof_f32 == 4

\* get_fragment_constants_buffer_size counting floats, not bytes
get_fragment_constants_buffer_size_in_floats(fragmentShader) ==
    /\ ret.op = "idle"
    /\ \E I \in {fragment_find(m_fragment_shader_cache, memory[fragmentShader])} :
           ret' = [op |-> "get_fragment_constants_buffer_size",
                   addr |-> fragmentShader,
                   size |-> IF I # {}
                            THEN Len(m_fragment_shader_cache[CHOOSE k \in I : TRUE]
                                         .FragmentConstantOffsetCache) * 4
                            ELSE 0]
    /\ UNCHANGED <<memory, cache_vars, recompile_log, build_calls, call_history>>

get_fragment_constants_buffer_size(fragmentShader) ==
    /\ ret.op = "idle"
    /\ \E I \in {fragment_find(m_fragment_shader_cache, memory[fragmentShader])} :
           ret' = [op |-> "get_fragment_constants_buffer_size",
                   addr |-> fragmentShader,
                   size |-> IF I # {}
                            THEN Len(m_fragment_shader_cache[CHOOSE k \in I : TRUE]
                                         .FragmentConstantOffsetCache) * 4 * sizeof_f32
                            ELSE 0]
    /\ UNCHANGED <<memory, cache_vars, recompile_log, build_calls, call_history>>

\* _mm_set_epi8(e15, ..., e0): byte i of the vector is e_i
mm_set_epi8(e) == [i \in 1..16 |-> e[17 - i]]

\* the mask of a full byte reversal of every 32-bit lane
mask_lane_reversal ==
    mm_set_epi8(<<12, 13, 14, 15, 8, 9, 10, 11, 4, 5, 6, 7, 0, 1, 2, 3>>)

mask == mm_set_epi8(<<14, 15, 12, 13, 10, 11, 8, 9, 6, 7, 4, 5, 2, 3, 0, 1>>)

\* _mm_shuffle_epi8(a, b): byte i is 0 if bit 7 of b[i] is set, else a[b[i] & 15]
mm_shuffle_epi8(a, b) ==
    [i \in 1..16 |-> IF b[i] >= 128 THEN 0 ELSE a[(b[i] % 16) + 1]]

\* _mm_loadu_si128 of the 16 bytes at ptr + byte_offset
mm_loadu_si128(ptr, byte_offset) ==
    [i \in 1..16 |->
        Bytes(ptr[((byte_offset + i - 1) \div 16) + 1])[((byte_offset + i - 1) % 16) + 1]]

\* _mm_stream_si128 of vector to the f32 at index offset of the span
mm_stream_si128(dst, offset, vector) ==
    [i \in 1..Len(dst) |->
        IF i > sizeof_f32 * offset /\ i <= sizeof_f32 * offset + 16
        THEN vector[i - sizeof_f32 * offset]
        ELSE dst[i]]

\* the destination span before the call: size f32, every byte 255
dst_buffer(size) == [i \in 1..(sizeof_f32 * size) |-> 255]

\* the loop advancing the destination by one f32 per constant
RECURSIVE fill_loop_step_one(_, _, _, _, _)
fill_loop_step_one(dst, ptr, offsets, k, offset) ==
    IF k > Len(offsets) THEN dst
    ELSE fill_loop_step_one(
             mm_stream_si128(dst, offset,
                             mm_shuffle_epi8(mm_loadu_si128(ptr, offsets[k]), mask)),
             ptr, offsets, k + 1, offset + 1)

\* the loop over FragmentConstantOffsetCache, from its k-th element
RECURSIVE fill_loop(_, _, _, _, _)
fill_loop(dst, ptr, offsets, k, offset) ==
    IF k > Len(offsets) THEN dst
    ELSE fill_loop(mm_stream_si128(dst, offset,
                                   mm_shuffle_epi8(mm_loadu_si128(ptr, offsets[k]), mask)),
                   ptr, offsets, k + 1, offset + sizeof_f32)

\* the precondition with > for >=
fill_expects_strict(size_bytes, count) == size_bytes > count * 16

\* Expects(dst_buffer.size_bytes() >= size * 16)
fill_expects(size_bytes, count) == size_bytes >= count * 16

\* fill_fragment_constans_buffer clearing the destination of an unknown program
fill_fragment_constans_buffer_zero_fill(size, fragment_program) ==
    /\ ret.op = "idle"
    /\ \E I \in {fragment_find(m_fragment_shader_cache, memory[fragment_program])} :
           IF I = {}
           THEN ret' = [op |-> "fill_fragment_constans_buffer",
                        addr |-> fragment_program, size |-> size,
                        outcome |-> "not_cached",
                        dst |-> [i \in 1..(sizeof_f32 * size) |-> 0]]
           ELSE \E offsets \in {m_fragment_shader_cache[CHOOSE k \in I : TRUE]
                                     .FragmentConstantOffsetCache} :
                    IF ~fill_expects(sizeof_f32 * size, Len(offsets))
                    THEN ret' = [op |-> "fill_fragment_constans_buffer",
                                 addr |-> fragment_program, size |-> size,
                                 outcome |-> "expects_failed", dst |-> dst_buffer(size)]
                    ELSE ret' = [op |-> "fill_fragment_constans_buffer",
                                 addr |-> fragment_program, size |-> size,
                                 outcome |-> "filled",
                                 dst |-> fill_loop(dst_buffer(size),
                                                   memory[fragment_program],
                                                   offsets, 1, 0)]
    /\ UNCHANGED <<memory, cache_vars, recompile_log, build_calls, call_history>>

fill_fragment_constans_buffer(size, fragment_program) ==
    /\ ret.op = "idle"
    /\ \E I \in {fragment_find(m_fragment_shader_cache, memory[fragment_program])} :
           IF I = {}
           THEN ret' = [op |-> "fill_fragment_constans_buffer",
                        addr |-> fragment_program, size |-> size,
                        outcome |-> "not_cached", dst |-> dst_buffer(size)]
           ELSE \E offsets \in {m_fragment_shader_cache[CHOOSE k \in I : TRUE]
                                     .FragmentConstantOffsetCache} :
                    IF ~fill_expects(sizeof_f32 * size, Len(offsets))
                    THEN ret' = [op |-> "fill_fragment_constans_buffer",
                                 addr |-> fragment_program, size |-> size,
                                 outcome |-> "expects_failed", dst |-> dst_buffer(size)]
                    ELSE ret' = [op |-> "fill_fragment_constans_buffer",
                                 addr |-> fragment_program, size |-> size,
                                 outcome |-> "filled",
                                 dst |-> fill_loop(dst_buffer(size),
                                                   memory[fragment_program],
                                                   offsets, 1, 0)]
    /\ UNCHANGED <<memory, cache_vars, recompile_log, build_calls, call_history>>

-----------------------------------------------------------------------------

Init ==
    /\ memory \in [Addrs -> Images]
    /\ m_next_id = 0
    /\ m_vertex_shader_cache = EmptyMap
    /\ m_fragment_shader_cache = EmptyMap
    /\ m_storage = EmptyMap
    /\ recompile_log = <<>>
    /\ build_calls = EmptyMap
    /\ call_history = EmptyMap
    /\ ret = [op |-> "idle"]
    /\ fragment_sources = <<>>
    /\ pc = [t \in Threads |-> "idle"]
    /\ local = [t \in Threads |-> <<>>]
    /\ mutex = "unused"
    /\ unfinished = {}

Next ==
    \/ \E vp \in VertexBinaries, addr \in Addrs, props \in Properties :
           getGraphicPipelineState(vp, addr, props) /\ UNCHANGED scenario_vars
    \/ \E addr \in Addrs, image \in Images :
           WriteMemory(addr, image) /\ UNCHANGED scenario_vars
    \/ \E vp \in VertexBinaries :
           get_transform_program(vp) /\ UNCHANGED scenario_vars
    \/ \E addr \in Addrs :
           get_shader_program(addr) /\ UNCHANGED scenario_vars
    \/ \E addr \in Addrs :
           get_fragment_constants_buffer_size(addr) /\ UNCHANGED scenario_vars
    \/ \E size \in DstSizes, addr \in Addrs :
           fill_fragment_constans_buffer(size, addr) /\ UNCHANGED scenario_vars
    \/ Return /\ UNCHANGED scenario_vars

Spec == Init /\ [][Next]_vars

-----------------------------------------------------------------------------
(* The same cache with a record of where each fragment binary was compiled   *)
(* from: the address, and everything guest memory held there at that time.   *)

resolve_at(vertexShader, fragmentShader, pipelineProperties) ==
    /\ getGraphicPipelineState(vertexShader, fragmentShader, pipelineProperties)
    /\ fragment_sources' =
           IF ret'.fp_preexisting THEN fragment_sources
           ELSE Append(fragment_sources,
                       [addr |-> fragmentShader, ptr |-> memory[fragmentShader],
                        binary |-> ret'.fp, id |-> ret'.fp_id])
    /\ UNCHANGED <<pc, local, mutex, unfinished>>

NextSources ==
    \/ \E vp \in VertexBinaries, addr \in Addrs, props \in Properties :
           resolve_at(vp, addr, props)
    \/ \E addr \in Addrs, image \in Images :
           WriteMemory(addr, image) /\ UNCHANGED scenario_vars
    \/ Return /\ UNCHANGED scenario_vars

SpecSources == Init /\ [][NextSources]_vars

-----------------------------------------------------------------------------
(* Two threads in getGraphicPipelineState: the statements of                 *)
(* search_vertex_program, search_fragment_program and of the pipeline lookup *)
(* taken one at a time, m_next_id++ as a read and a write.  Each operation   *)
(* on a table is one step, the mildest outcome of an unsynchronized access.  *)

race_history ==
    <<memory, recompile_log, build_calls, call_history, ret, fragment_sources, unfinished>>

Goto(t, label) == pc' = [pc EXCEPT ![t] = label]

SetLocal(t, field, value) ==
    local' = [local EXCEPT ![t] = [local[t] EXCEPT ![field] = value]]

\* the call is entered; callers that serialize take the mutex first
race_enter(t, vertexShader, fragmentShader, pipelineProperties) ==
    /\ pc[t] = "idle"
    /\ mutex \in {"unused", "free"}
    /\ mutex' = IF mutex = "free" THEN t ELSE mutex
    /\ Goto(t, "vertex_find")
    /\ local' = [local EXCEPT ![t] =
                     [vp |-> vertexShader,
                      fp |-> ucode_copy(memory[fragmentShader]),
                      props |-> pipelineProperties,
                      vp_preexisting |-> FALSE, fp_preexisting |-> FALSE,
                      id |-> 0, key |-> <<>>]]
    /\ UNCHANGED <<cache_vars, race_history>>

\* const auto& I = m_vertex_shader_cache.find(rsx_vp.data)
race_vertex_find(t) ==
    /\ pc[t] = "vertex_find"
    /\ IF vertex_find(m_vertex_shader_cache, local[t].vp) # {}
       THEN SetLocal(t, "vp_preexisting", TRUE) /\ Goto(t, "fragment_find")
       ELSE UNCHANGED local /\ Goto(t, "vertex_insert")
    /\ UNCHANGED <<cache_vars, race_history, mutex>>

\* vertex_program_type& new_shader = m_vertex_shader_cache[rsx_vp.data]:
\* a record not yet populated, its id whatever the constructor left
race_vertex_insert(t) ==
    /\ pc[t] = "vertex_insert"
    /\ IF vertex_find(m_vertex_shader_cache, local[t].vp) # {}
       THEN UNCHANGED m_vertex_shader_cache
       ELSE \E garbage \in {0, m_next_id} :
                m_vertex_shader_cache' =
                    MapPut(m_vertex_shader_cache, local[t].vp, [id |-> garbage])
    /\ Goto(t, "vertex_read_id")
    /\ UNCHANGED <<m_next_id, m_fragment_shader_cache, m_storage, race_history,
                   local, mutex>>

\* m_next_id++ with the result discarded
race_write_id_lost(t, next_label) ==
    /\ local[t].id + 1 <= MaxIds
    /\ m_next_id' = m_next_id
    /\ Goto(t, next_label)
    /\ UNCHANGED <<m_vertex_shader_cache, m_fragment_shader_cache, m_storage,
                   race_history, local, mutex>>

\* m_next_id++: the value read
race_read_id(t, next_label) ==
    /\ SetLocal(t, "id", m_next_id)
    /\ Goto(t, next_label)
    /\ UNCHANGED <<cache_vars, race_history, mutex>>

\* m_next_id++: the value read plus one written back
race_write_id(t, next_label) ==
    /\ local[t].id + 1 <= MaxIds
    /\ m_next_id' = local[t].id + 1
    /\ Goto(t, next_label)
    /\ UNCHANGED <<m_vertex_shader_cache, m_fragment_shader_cache, m_storage,
                   race_history, local, mutex>>

race_vertex_read_id(t) == pc[t] = "vertex_read_id" /\ race_read_id(t, "vertex_write_id")

race_vertex_write_id(t) == pc[t] = "vertex_write_id" /\ race_write_id(t, "vertex_recompile")

\* backend_traits::recompile_vertex_program(rsx_vp, new_shader, id)
race_vertex_recompile(t) ==
    /\ pc[t] = "vertex_recompile"
    /\ m_vertex_shader_cache' =
           MapPut(m_vertex_shader_cache, vertex_slot(m_vertex_shader_cache, local[t].vp),
                  recompile_vertex_program(local[t].vp, local[t].id))
    /\ recompile_log' = Append(recompile_log,
                               [stage |-> "vertex", binary |-> local[t].vp,
                                id |-> local[t].id])
    /\ Goto(t, "fragment_find")
    /\ UNCHANGED <<m_next_id, m_fragment_shader_cache, m_storage, memory, build_calls,
                   call_history, ret, fragment_sources, unfinished, local, mutex>>

\* const auto& I = m_fragment_shader_cache.find(vm::base(rsx_fp.addr))
race_fragment_find(t) ==
    /\ pc[t] = "fragment_find"
    /\ IF fragment_find(m_fragment_shader_cache, local[t].fp) # {}
       THEN SetLocal(t, "fp_preexisting", TRUE) /\ Goto(t, "make_key")
       ELSE UNCHANGED local /\ Goto(t, "fragment_insert")
    /\ UNCHANGED <<cache_vars, race_history, mutex>>

\* fragment_program_type& new_shader = m_fragment_shader_cache[copy]
race_fragment_insert(t) ==
    /\ pc[t] = "fragment_insert"
    /\ IF fragment_find(m_fragment_shader_cache, local[t].fp) # {}
       THEN UNCHANGED m_fragment_shader_cache
       ELSE \E garbage \in {0, m_next_id} :
                m_fragment_shader_cache' =
                    MapPut(m_fragment_shader_cache, local[t].fp,
                           [id |-> garbage, FragmentConstantOffsetCache |-> <<>>])
    /\ Goto(t, "fragment_read_id")
    /\ UNCHANGED <<m_next_id, m_vertex_shader_cache, m_storage, race_history,
                   local, mutex>>

race_fragment_read_id(t) == pc[t] = "fragment_read_id" /\ race_read_id(t, "fragment_write_id")

race_fragment_write_id(t) == pc[t] = "fragment_write_id" /\ race_write_id(t, "fragment_recompile")

\* backend_traits::recompile_fragment_program(rsx_fp, new_shader, id)
race_fragment_recompile(t) ==
    /\ pc[t] = "fragment_recompile"
    /\ m_fragment_shader_cache' =
           MapPut(m_fragment_shader_cache,
                  fragment_slot(m_fragment_shader_cache, local[t].fp),
                  recompile_fragment_program(local[t].fp, local[t].id))
    /\ recompile_log' = Append(recompile_log,
                               [stage |-> "fragment", binary |-> local[t].fp,
                                id |-> local[t].id])
    /\ Goto(t, "make_key")
    /\ UNCHANGED <<m_next_id, m_vertex_shader_cache, m_storage, memory, build_calls,
                   call_history, ret, fragment_sources, unfinished, local, mutex>>

\* pipeline_key key = { vertex_program.id, fragment_program.id, pipelineProperties }
race_make_key(t) ==
    /\ pc[t] = "make_key"
    /\ SetLocal(t, "key",
                pipeline_key(
                    m_vertex_shader_cache[
                        vertex_slot(m_vertex_shader_cache, local[t].vp)].id,
                    m_fragment_shader_cache[
                        fragment_slot(m_fragment_shader_cache, local[t].fp)].id,
                    local[t].props))
    /\ Goto(t, IF local[t].fp_preexisting /\ local[t].vp_preexisting
               THEN "probe" ELSE "build")
    /\ UNCHANGED <<cache_vars, race_history, mutex>>

\* const auto I = m_storage.find(key)
race_probe(t) ==
    /\ pc[t] = "probe"
    /\ Goto(t, IF storage_find(m_storage, local[t].key) # {} THEN "return" ELSE "build")
    /\ UNCHANGED <<cache_vars, race_history, local, mutex>>

\* m_storage[key] = backend_traits::build_pipeline(...)
race_build(t) ==
    /\ pc[t] = "build"
    /\ m_storage' =
           MapPut(m_storage, storage_slot(m_storage, local[t].key),
                  build_pipeline(
                      m_vertex_shader_cache[
                          vertex_slot(m_vertex_shader_cache, local[t].vp)],
                      m_fragment_shader_cache[
                          fragment_slot(m_fragment_shader_cache, local[t].fp)],
                      local[t].props, Count(build_calls, local[t].key) + 1))
    /\ build_calls' = MapPut(build_calls, local[t].key,
                             Count(build_calls, local[t].key) + 1)
    /\ Goto(t, "return")
    /\ UNCHANGED <<m_next_id, m_vertex_shader_cache, m_fragment_shader_cache, memory,
                   recompile_log, call_history, ret, fragment_sources, unfinished,
                   local, mutex>>

\* return m_storage[key]; callers that serialize release the mutex.  Every
\* thread makes one call.
race_return(t) ==
    /\ pc[t] = "return"
    /\ Goto(t, "done")
    /\ mutex' = IF mutex = t THEN "free" ELSE mutex
    /\ UNCHANGED <<cache_vars, race_history, local>>

\* a thread runs if the callers do not serialize or it holds the mutex
race_step(t) ==
    /\ mutex \in {"unused", t}
    /\ \/ race_vertex_find(t)
       \/ race_vertex_insert(t)
       \/ race_vertex_read_id(t)
       \/ race_vertex_write_id(t)
       \/ race_vertex_recompile(t)
       \/ race_fragment_find(t)
       \/ race_fragment_insert(t)
       \/ race_fragment_read_id(t)
       \/ race_fragment_write_id(t)
       \/ race_fragment_recompile(t)
       \/ race_make_key(t)
       \/ race_probe(t)
       \/ race_build(t)
       \/ race_return(t)

InitRace ==
    /\ memory = [addr \in Addrs |-> IF addr = "A" THEN <<"const2", "const", "end">>
                                                  ELSE <<"end", "inst", "const">>]
    /\ m_next_id = 0
    /\ m_vertex_shader_cache = EmptyMap
    /\ m_fragment_shader_cache = EmptyMap
    /\ m_storage = EmptyMap
    /\ recompile_log = <<>>
    /\ build_calls = EmptyMap
    /\ call_history = EmptyMap
    /\ ret = [op |-> "idle"]
    /\ fragment_sources = <<>>
    /\ pc = [t \in Threads |-> "idle"]
    /\ local = [t \in Threads |-> <<>>]
    /\ mutex \in {"unused", "free"}
    /\ unfinished = {}

NextRace ==
    \/ \E t \in Threads, vp \in VertexBinaries, addr \in Addrs, props \in Properties :
           race_enter(t, vp, addr, props)
    \/ \E t \in Threads : race_step(t)

SpecRace == InitRace /\ [][NextRace]_vars

-----------------------------------------------------------------------------

(* getGraphicPipelineState with collaborators that may throw: the exception  *)
(* leaves the call at the statement that called the collaborator, with what  *)
(* the statements before it have done.                                       *)

GetOrBuildThrew == "getGraphicPipelineState threw"

\* a call that returns: its collaborators completed
getGraphicPipelineState_completes(vertexShader, fragmentShader, pipelineProperties) ==
    /\ getGraphicPipelineState(vertexShader, fragmentShader, pipelineProperties)
    /\ unfinished' =
           unfinished \ ((IF ret'.vp_preexisting THEN {} ELSE {<<"vertex", ret'.vp>>})
                         \cup (IF ret'.fp_preexisting THEN {}
                               ELSE {<<"fragment", ret'.fp>>})
                         \cup (IF ret'.built THEN {<<"pipeline", ret'.key>>} ELSE {}))
    /\ UNCHANGED <<fragment_sources, pc, local, mutex>>

\* recompile_vertex_program throws: m_vertex_shader_cache[rsx_vp.data] has
\* inserted a record, its id whatever the constructor left, and m_next_id++
\* has been evaluated for the argument
recompile_vertex_program_throws(vertexShader, fragmentShader, pipelineProperties) ==
    /\ ret.op = "idle"
    /\ vertex_find(m_vertex_shader_cache, vertexShader) = {}
    /\ m_next_id + 1 <= MaxIds
    /\ \E garbage \in {0, m_next_id} :
           m_vertex_shader_cache' =
               MapPut(m_vertex_shader_cache, vertexShader, [id |-> garbage])
    /\ m_next_id' = m_next_id + 1
    /\ unfinished' = unfinished \cup {<<"vertex", vertexShader>>}
    /\ ret' = [op |-> GetOrBuildThrew, in |-> "recompile_vertex_program",
               vp |-> vertexShader, addr |-> fragmentShader,
               props |-> pipelineProperties]
    /\ UNCHANGED <<memory, m_fragment_shader_cache, m_storage, recompile_log,
                   build_calls, call_history, fragment_sources, pc, local, mutex>>

\* recompile_fragment_program throws, after search_vertex_program has returned
recompile_fragment_program_throws(vertexShader, fragmentShader, pipelineProperties) ==
    /\ ret.op = "idle"
    /\ fragment_find(m_fragment_shader_cache, memory[fragmentShader]) = {}
    /\ \E vp_search \in
              {search_vertex_program(m_vertex_shader_cache, m_next_id, vertexShader)} :
       \E ucode \in {ucode_copy(memory[fragmentShader])} :
           /\ vp_search.next_id + 1 <= MaxIds
           /\ m_vertex_shader_cache' = vp_search.cache
           /\ \E garbage \in {0, vp_search.next_id} :
                  m_fragment_shader_cache' =
                      MapPut(m_fragment_shader_cache, ucode,
                             [id |-> garbage, FragmentConstantOffsetCache |-> <<>>])
           /\ m_next_id' = vp_search.next_id + 1
           /\ recompile_log' = recompile_log \o vp_search.recompiled
           /\ unfinished' = (unfinished \ {<<"vertex", b>> : b \in
                                 {r.binary : r \in {vp_search.recompiled[i] :
                                      i \in DOMAIN vp_search.recompiled}}})
                                \cup {<<"fragment", ucode>>}
           /\ ret' = [op |-> GetOrBuildThrew, in |-> "recompile_fragment_program",
                      vp |-> vertexShader, addr |-> fragmentShader,
                      props |-> pipelineProperties]
    /\ UNCHANGED <<memory, m_storage, build_calls, call_history, fragment_sources,
                   pc, local, mutex>>

\* what m_storage[key] inserts before anything is assigned to it
default_pipeline == [vp |-> 0, fp |-> 0, properties |-> 0, build |-> 0]

\* build_pipeline throws in m_storage[key] = build_pipeline(...): whether
\* m_storage[key] has been evaluated by then, and has inserted a pipeline, is
\* unspecified before C++17
build_pipeline_throws(vertexShader, fragmentShader, pipelineProperties) ==
    /\ ret.op = "idle"
    /\ \E vp_search \in
              {search_vertex_program(m_vertex_shader_cache, m_next_id, vertexShader)} :
       \E fp_search \in
              {search_fragment_program(m_fragment_shader_cache, vp_search.next_id,
                                       memory[fragmentShader])} :
       \E key \in {pipeline_key(vp_search.program.id, fp_search.program.id,
                                 pipelineProperties)} :
       \E inserted \in BOOLEAN :
           /\ fp_search.next_id <= MaxIds
           /\ ~(/\ fp_search.preexisting /\ vp_search.preexisting
                /\ storage_find(m_storage, key) # {})
           /\ m_vertex_shader_cache' = vp_search.cache
           /\ m_fragment_shader_cache' = fp_search.cache
           /\ m_next_id' = fp_search.next_id
           /\ m_storage' = IF inserted /\ storage_find(m_storage, key) = {}
                           THEN MapPut(m_storage, key, default_pipeline)
                           ELSE m_storage
           /\ recompile_log' = recompile_log \o vp_search.recompiled \o fp_search.recompiled
           /\ unfinished' =
                  (unfinished
                      \ ((IF vp_search.preexisting THEN {}
                          ELSE {<<"vertex", vertexShader>>})
                         \cup (IF fp_search.preexisting THEN {}
                               ELSE {<<"fragment", ucode_copy(memory[fragmentShader])>>})))
                     \cup {<<"pipeline", storage_slot(m_storage, key)>>}
           /\ ret' = [op |-> GetOrBuildThrew, in |-> "build_pipeline",
                      vp |-> vertexShader, addr |-> fragmentShader,
                      props |-> pipelineProperties]
    /\ UNCHANGED <<memory, build_calls, call_history, fragment_sources, pc, local, mutex>>

\* the pipeline_properties of the calls that may throw
ThrowsProperties == {p \in Properties : \A q \in Properties : p <= q}

NextThrows ==
    \/ \E vp \in VertexBinaries, addr \in Addrs, props \in ThrowsProperties :
           getGraphicPipelineState_completes(vp, addr, props)
    \/ \E vp \in VertexBinaries, addr \in Addrs, props \in ThrowsProperties :
           recompile_vertex_program_throws(vp, addr, props)
    \/ \E vp \in VertexBinaries, addr \in Addrs, props \in ThrowsProperties :
           recompile_fragment_program_throws(vp, addr, props)
    \/ \E vp \in VertexBinaries, addr \in Addrs, props \in ThrowsProperties :
           build_pipeline_throws(vp, addr, props)
    \/ Return /\ UNCHANGED scenario_vars

InitThrows ==
    /\ memory = [addr \in Addrs |-> IF addr = "A" THEN <<"const2", "const", "end">>
                                                  ELSE <<"end", "inst", "const">>]
    /\ m_next_id = 0
    /\ m_vertex_shader_cache = EmptyMap
    /\ m_fragment_shader_cache = EmptyMap
    /\ m_storage = EmptyMap
    /\ recompile_log = <<>>
    /\ build_calls = EmptyMap
    /\ call_history = EmptyMap
    /\ ret = [op |-> "idle"]
    /\ fragment_sources = <<>>
    /\ pc = [t \in Threads |-> "idle"]
    /\ local = [t \in Threads |-> <<>>]
    /\ mutex = "unused"
    /\ unfinished = {}

SpecThrows == InitThrows /\ [][NextThrows]_vars

-----------------------------------------------------------------------------

(* Properties *)

GetOrBuild == "getGraphicPipelineState"

\* the identities the recompile collaborator was handed for a binary of a stage
CompiledIds(log, stage, binary) ==
    {log[i].id : i \in {j \in DOMAIN log : log[j].stage = stage /\ log[j].binary = binary}}

\* C1: in any sequence of getGraphicPipelineState calls, and for each stage,
\* resolving a binary whose content equals that of a binary resolved earlier
\* returns the identity given at that earlier resolve and reports it as
\* preexisting, and the recompile collaborator is called at most once per
\* distinct binary content.
C1_SameContentSameProgram ==
    [][ret'.op = GetOrBuild =>
          /\ \A id \in CompiledIds(recompile_log, "vertex", ret'.vp) :
                 ret'.vp_preexisting /\ ret'.vp_id = id
          /\ \A id \in CompiledIds(recompile_log, "fragment", ret'.fp) :
                 ret'.fp_preexisting /\ ret'.fp_id = id
          /\ \A i, j \in DOMAIN recompile_log' :
                 (/\ recompile_log'[i].stage = recompile_log'[j].stage
                  /\ recompile_log'[i].binary = recompile_log'[j].binary) => i = j]_vars

\* a call found both of its binaries resolved by earlier calls
C1_Witness ==
    /\ ret.op = GetOrBuild
    /\ ret.vp_preexisting
    /\ ret.fp_preexisting
    /\ Len(recompile_log) >= 2

\* C2: every getGraphicPipelineState call whose vertex content, fragment content
\* and properties equal those of an earlier call returns the pipeline entry that
\* the first such call returned, which is still the stored one, and
\* build_pipeline was called exactly once for every key built.
C2_PipelineBuiltOnce ==
    /\ \A key \in DOMAIN build_calls : build_calls[key] = 1
    /\ DOMAIN m_storage = DOMAIN build_calls
    /\ \A triple \in DOMAIN call_history :
           /\ call_history[triple].key \in DOMAIN m_storage
           /\ m_storage[call_history[triple].key] = call_history[triple].pipeline
    /\ ret.op = GetOrBuild =>
           /\ <<ret.vp, ret.fp, ret.props>> \in DOMAIN call_history
           /\ ret.key = call_history[<<ret.vp, ret.fp, ret.props>>].key
           /\ ret.pipeline = call_history[<<ret.vp, ret.fp, ret.props>>].pipeline
           /\ build_calls[ret.key] = 1

\* a call repeated an earlier call and built nothing
C2_Witness ==
    /\ ret.op = GetOrBuild
    /\ ~ret.built
    /\ build_calls[ret.key] = 1

\* C3: within one stage, binaries whose content differs (a strict prefix of
\* another included) have programs with distinct identities, and the program a
\* call returns is the one compiled for the content it was called with.
C3_DistinctContentDistinctProgram ==
    /\ \A k1, k2 \in DOMAIN m_vertex_shader_cache :
           k1 # k2 => m_vertex_shader_cache[k1].id # m_vertex_shader_cache[k2].id
    /\ \A k1, k2 \in DOMAIN m_fragment_shader_cache :
           k1 # k2 => m_fragment_shader_cache[k1].id # m_fragment_shader_cache[k2].id
    /\ \A i, j \in DOMAIN recompile_log :
           (/\ recompile_log[i].stage = recompile_log[j].stage
            /\ recompile_log[i].binary # recompile_log[j].binary)
               => recompile_log[i].id # recompile_log[j].id
    /\ ret.op = GetOrBuild =>
           /\ CompiledIds(recompile_log, "vertex", ret.vp) = {ret.vp_id}
           /\ CompiledIds(recompile_log, "fragment", ret.fp) = {ret.fp_id}

\* a vertex binary and a strict prefix of it are both resolved
C3_Witness ==
    /\ <<1>> \in DOMAIN m_vertex_shader_cache
    /\ <<1, 2>> \in DOMAIN m_vertex_shader_cache
    /\ m_vertex_shader_cache[<<1>>].id # m_vertex_shader_cache[<<1, 2>>].id

\* C4: the identity handed to the recompile collaborator on a miss of either
\* stage is strictly greater than every identity handed out on an earlier miss.
C4_IdentitiesIncrease ==
    \A i, j \in DOMAIN recompile_log :
        i < j => recompile_log[i].id < recompile_log[j].id

\* three misses, of both stages
C4_Witness ==
    /\ Len(recompile_log) >= 3
    /\ \E i, j \in DOMAIN recompile_log :
           recompile_log[i].stage = "vertex" /\ recompile_log[j].stage = "fragment"

\* C5: with the vertex and fragment binaries of an earlier call, a call whose
\* properties differ from those of every earlier call for these binaries calls
\* build_pipeline again and stores a new entry, distinct from all stored ones,
\* and leaves the stored entries in place and unchanged.
C5_NewPropertiesNewPipeline ==
    [][(/\ ret'.op = GetOrBuild
        /\ \E t \in DOMAIN call_history : t[1] = ret'.vp /\ t[2] = ret'.fp
        /\ <<ret'.vp, ret'.fp, ret'.props>> \notin DOMAIN call_history)
       => /\ ret'.built
          /\ ret'.key \notin DOMAIN m_storage
          /\ ret'.key.properties = ret'.props
          /\ DOMAIN m_storage' = DOMAIN m_storage \cup {ret'.key}
          /\ m_storage'[ret'.key] = ret'.pipeline
          /\ \A k \in DOMAIN m_storage :
                 m_storage'[k] = m_storage[k] /\ m_storage[k] # ret'.pipeline
          /\ build_calls'[ret'.key] = 1
          /\ ret'.key \notin DOMAIN build_calls]_vars

\* two entries for the same programs and different properties
C5_Witness ==
    \E k1, k2 \in DOMAIN m_storage :
        /\ k1.vertex_program_id = k2.vertex_program_id
        /\ k1.fragment_program_id = k2.fragment_program_id
        /\ k1.properties # k2.properties
        /\ m_storage[k1] # m_storage[k2]

\* C6: get_transform_program returns the record of a vertex binary that an
\* earlier getGraphicPipelineState resolved, the one with the identity given
\* then, and fails with "not found" for a binary that was never resolved.
C6_GetTransformProgram ==
    ret.op = "get_transform_program" =>
        IF CompiledIds(recompile_log, "vertex", ret.vp) # {}
        THEN /\ ret.outcome = "returned"
             /\ ret.program = m_vertex_shader_cache[ret.vp]
             /\ CompiledIds(recompile_log, "vertex", ret.vp) = {ret.program.id}
        ELSE ret.outcome = "not_found"

\* C7: get_shader_program returns the record of the fragment binary at the
\* address if an earlier getGraphicPipelineState resolved its content, and
\* fails with "not found" and returns no record if not; the cache is unchanged.
C7_GetShaderProgram ==
    [][ret'.op = "get_shader_program" =>
          /\ UNCHANGED <<memory, cache_vars>>
          /\ IF CompiledIds(recompile_log, "fragment", ucode_copy(memory[ret'.addr])) # {}
             THEN /\ ret'.outcome = "returned"
                  /\ ret'.program =
                         m_fragment_shader_cache[ucode_copy(memory[ret'.addr])]
                  /\ CompiledIds(recompile_log, "fragment",
                                 ucode_copy(memory[ret'.addr])) = {ret'.program.id}
             ELSE /\ ret'.outcome = "not_found"
                  /\ DOMAIN ret' = {"op", "addr", "outcome"}]_vars

\* get_shader_program failed for an unresolved binary while others are resolved
C7_Witness ==
    /\ ret.op = "get_shader_program"
    /\ ret.outcome = "not_found"
    /\ DOMAIN m_fragment_shader_cache # {}

Fill == "fill_fragment_constans_buffer"

\* the constant offsets of the resolved program of the binary at an address
OffsetsAt(addr) ==
    m_fragment_shader_cache[ucode_copy(memory[addr])].FragmentConstantOffsetCache

\* the 16 bytes of guest memory at an address plus a multiple of 16
SourceAt(addr, offset) == Bytes(memory[addr][(offset \div 16) + 1])

\* the k-th 16-byte group of a destination
Slot(dst, k) == [i \in 1..16 |-> dst[16 * (k - 1) + i]]

\* C8 as stated: every constant is written with the bytes of each 32-bit lane
\* reversed, d[4i + j] = s[4i + (3 - j)], the lanes in order.
C8_LaneByteReversal ==
    (ret.op = Fill /\ ret.outcome = "filled") =>
        \A k \in 1..Len(OffsetsAt(ret.addr)) :
            \A i \in 0..3 : \A j \in 0..3 :
                Slot(ret.dst, k)[4 * i + j + 1]
                    = SourceAt(ret.addr, OffsetsAt(ret.addr)[k])[4 * i + (3 - j) + 1]

\* a 32-bit lane of a group decoded little-endian
LittleEndian(group, lane) ==
    group[4 * lane + 1] + 256 * group[4 * lane + 2]
        + 65536 * group[4 * lane + 3] + 16777216 * group[4 * lane + 4]

\* C8 amended: every constant is written with the two bytes of each 16-bit
\* half swapped, d[2h + j] = s[2h + (1 - j)], the halves in order; the lanes
\* 0x3F800000, 0x40000000, 0x40400000, 0x40800000 decode little-endian to
\* 0x00003F80, 0x00004000, 0x00004040, 0x00004080.
C8_HalfwordByteSwap ==
    (ret.op = Fill /\ ret.outcome = "filled") =>
        \A k \in 1..Len(OffsetsAt(ret.addr)) :
            /\ \A h \in 0..7 : \A j \in 0..1 :
                   Slot(ret.dst, k)[2 * h + j + 1]
                       = SourceAt(ret.addr, OffsetsAt(ret.addr)[k])[2 * h + (1 - j) + 1]
            /\ memory[ret.addr][(OffsetsAt(ret.addr)[k] \div 16) + 1] = "const" =>
                   /\ LittleEndian(Slot(ret.dst, k), 0) = 16256
                   /\ LittleEndian(Slot(ret.dst, k), 1) = 16384
                   /\ LittleEndian(Slot(ret.dst, k), 2) = 16448
                   /\ LittleEndian(Slot(ret.dst, k), 3) = 16512

\* the constant 1.0, 2.0, 3.0, 4.0 at offset 16 of a 48-byte binary was extracted
C8_Witness ==
    /\ ret.op = Fill
    /\ ret.outcome = "filled"
    /\ memory[ret.addr] = <<"const2", "const", "end">>
    /\ OffsetsAt(ret.addr) = <<0, 16>>
    /\ Len(ret.dst) >= 32

\* how often a byte occurs in a group
Occurrences(group, b) == Cardinality({i \in 1..16 : group[i] = b})

\* C9: for a resolved fragment program with n constant offsets and a
\* destination of n * 16 bytes or more, the extraction succeeds; the k-th
\* 16-byte group of the destination holds the 16 source bytes at base + o[k],
\* in some order, and no byte past the first n * 16 is written.
C9_GroupsInOffsetOrder ==
    (/\ ret.op = Fill
     /\ CompiledIds(recompile_log, "fragment", ucode_copy(memory[ret.addr])) # {}
     /\ sizeof_f32 * ret.size >= 16 * Len(OffsetsAt(ret.addr)))
    => /\ ret.outcome = "filled"
       /\ Len(ret.dst) = sizeof_f32 * ret.size
       /\ \A k \in 1..Len(OffsetsAt(ret.addr)) :
              \A b \in 0..255 :
                  Occurrences(Slot(ret.dst, k), b)
                      = Occurrences(SourceAt(ret.addr, OffsetsAt(ret.addr)[k]), b)
       /\ \A i \in 1..Len(ret.dst) :
              i > 16 * Len(OffsetsAt(ret.addr)) => ret.dst[i] = 255

\* two constants were extracted into a destination of exactly 32 bytes
C9_Witness ==
    /\ ret.op = Fill
    /\ ret.outcome = "filled"
    /\ Len(OffsetsAt(ret.addr)) = 2
    /\ sizeof_f32 * ret.size = 32

\* C10: the extraction for a resolved fragment program fails its precondition
\* if and only if the destination is smaller than offsetCount * 16 bytes, and
\* then no byte of the destination has been written.
C10_PreconditionFailure ==
    (/\ ret.op = Fill
     /\ CompiledIds(recompile_log, "fragment", ucode_copy(memory[ret.addr])) # {})
    => /\ ret.outcome = "expects_failed"
           <=> sizeof_f32 * ret.size < 16 * Len(OffsetsAt(ret.addr))
       /\ ret.outcome = "expects_failed" =>
              /\ Len(ret.dst) = sizeof_f32 * ret.size
              /\ \A i \in 1..Len(ret.dst) : ret.dst[i] = 255

\* a destination of 28 bytes was refused for a program with two constants
C10_Witness ==
    /\ ret.op = Fill
    /\ ret.outcome = "expects_failed"
    /\ ret.size = 7
    /\ Len(OffsetsAt(ret.addr)) = 2

\* C11: fill_fragment_constans_buffer for a fragment binary that no
\* getGraphicPipelineState has resolved (never, or the bytes at the address
\* are no longer those of a resolved binary) returns normally, leaves every
\* byte of the destination as it was whatever its size, and leaves the three
\* tables and m_next_id unchanged.
C11_UnresolvedExtractionNoOp ==
    [][(/\ ret'.op = Fill
        /\ CompiledIds(recompile_log, "fragment", ucode_copy(memory[ret'.addr])) = {})
       => /\ ret'.outcome = "not_cached"
          /\ ret'.dst = dst_buffer(ret'.size)
          /\ Len(ret'.dst) = sizeof_f32 * ret'.size
          /\ UNCHANGED <<memory, cache_vars>>]_vars

\* a destination of 48 bytes was left alone: the binary at the address is not
\* resolved, another one is
C11_Witness ==
    /\ ret.op = Fill
    /\ ret.outcome = "not_cached"
    /\ ret.size = 12
    /\ ret.dst = dst_buffer(12)
    /\ DOMAIN m_fragment_shader_cache # {}
    /\ ucode_copy(memory[ret.addr]) \notin DOMAIN m_fragment_shader_cache

SizeOp == "get_fragment_constants_buffer_size"

\* C12: get_fragment_constants_buffer_size returns 16 times the number of
\* constant offsets recorded for the fragment binary at the address if a
\* getGraphicPipelineState resolved its content, and 0 if not; the tables and
\* m_next_id are unchanged.
C12_ConstantsBufferSize ==
    [][ret'.op = SizeOp =>
          /\ UNCHANGED <<memory, cache_vars>>
          /\ ret'.size =
                 IF CompiledIds(recompile_log, "fragment",
                                ucode_copy(memory[ret'.addr])) # {}
                 THEN 16 * Len(OffsetsAt(ret'.addr))
                 ELSE 0]_vars

\* 32 bytes were reported for a program with two constants
C12_Witness ==
    /\ ret.op = SizeOp
    /\ ret.size = 32
    /\ Len(OffsetsAt(ret.addr)) = 2

\* C13: the key of a fragment record is a copy, independent of guest memory
\* and of the address.  A write to guest memory changes no table; every
\* getGraphicPipelineState leaves each fragment record in place with its
\* identity; a content compiled before is a hit with the identity given then
\* at whatever address it is read; a content not compiled before, such as the
\* new content of an overwritten address, is a miss with an identity that no
\* fragment record has.
C13_DurableFragmentKey ==
    [][/\ memory' # memory => UNCHANGED <<cache_vars, fragment_sources>>
       /\ ret'.op = GetOrBuild =>
              /\ \A k \in DOMAIN m_fragment_shader_cache :
                     /\ k \in DOMAIN m_fragment_shader_cache'
                     /\ m_fragment_shader_cache'[k] = m_fragment_shader_cache[k]
              /\ IF \E i \in DOMAIN fragment_sources :
                        fragment_sources[i].binary = ret'.fp
                 THEN /\ ret'.fp_preexisting
                      /\ \A i \in DOMAIN fragment_sources :
                             fragment_sources[i].binary = ret'.fp
                                 => ret'.fp_id = fragment_sources[i].id
                 ELSE /\ ~ret'.fp_preexisting
                      /\ \A k \in DOMAIN m_fragment_shader_cache :
                             m_fragment_shader_cache[k].id # ret'.fp_id
                      /\ \A i \in DOMAIN fragment_sources :
                             fragment_sources[i].id # ret'.fp_id]_vars

\* a content was compiled at A, A was overwritten and compiled again with a
\* new identity, and the first content, now read at B, is a hit with its
\* first identity
C13_Witness ==
    /\ Len(fragment_sources) >= 2
    /\ fragment_sources[1].addr = "A"
    /\ fragment_sources[2].addr = "A"
    /\ fragment_sources[2].id # fragment_sources[1].id
    /\ ret.op = GetOrBuild
    /\ ret.addr = "B"
    /\ ret.fp = fragment_sources[1].binary
    /\ ret.fp_preexisting
    /\ ret.fp_id = fragment_sources[1].id
    /\ m_fragment_shader_cache[fragment_sources[1].binary].id = fragment_sources[1].id

\* C14: two fragment binaries with the same scanned length L and the same
\* bytes in [0, L), whatever follows them in memory, are one key: resolving
\* the second after the first is a hit, the fragment cache holds one entry for
\* them, and every key is L bytes long.
C14_TrailingBytesIgnored ==
    [][ret'.op = GetOrBuild =>
          /\ \A k \in DOMAIN m_fragment_shader_cache' :
                 16 * Len(k) = get_fragment_program_ucode_size(k)
          /\ (\E i \in DOMAIN fragment_sources :
                  /\ get_fragment_program_ucode_size(fragment_sources[i].ptr)
                         = get_fragment_program_ucode_size(memory[ret'.addr])
                  /\ \A q \in 1..(get_fragment_program_ucode_size(memory[ret'.addr])
                                      \div 16) :
                         Bytes(fragment_sources[i].ptr[q]) = Bytes(memory[ret'.addr][q]))
             => /\ ret'.fp_preexisting
                /\ m_fragment_shader_cache' = m_fragment_shader_cache
                /\ fragment_sources' = fragment_sources
                /\ Cardinality({k \in DOMAIN m_fragment_shader_cache' :
                                    SubSeq(memory[ret'.addr], 1, Len(k)) = k}) = 1]_vars

\* the 16-byte binary was compiled where other bytes followed it than at the
\* address it is now read from, and it is a hit
C14_Witness ==
    /\ ret.op = GetOrBuild
    /\ ret.fp_preexisting
    /\ memory[ret.addr] = <<"end", "const", "inst">>
    /\ \E i \in DOMAIN fragment_sources :
           /\ fragment_sources[i].ptr = <<"end", "inst", "const">>
           /\ fragment_sources[i].id = ret.fp_id
    /\ Cardinality(DOMAIN m_fragment_shader_cache) = 1

\* C15: nothing is removed or replaced.  Every step leaves every vertex record,
\* fragment record and pipeline entry under its key, the record with its
\* identity and the pipeline the one that was stored first.
C15_AppendOnly ==
    [][/\ \A k \in DOMAIN m_vertex_shader_cache :
              /\ k \in DOMAIN m_vertex_shader_cache'
              /\ m_vertex_shader_cache'[k] = m_vertex_shader_cache[k]
       /\ \A k \in DOMAIN m_fragment_shader_cache :
              /\ k \in DOMAIN m_fragment_shader_cache'
              /\ m_fragment_shader_cache'[k] = m_fragment_shader_cache[k]
       /\ \A k \in DOMAIN m_storage :
              /\ k \in DOMAIN m_storage'
              /\ m_storage'[k] = m_storage[k]
              /\ build_calls'[k] = build_calls[k]]_vars

\* a call compiled a second vertex program and built a third pipeline
C15_Witness ==
    /\ ret.op = GetOrBuild
    /\ ret.built
    /\ ~ret.vp_preexisting
    /\ Cardinality(DOMAIN m_vertex_shader_cache) = 2
    /\ Cardinality(DOMAIN m_storage) >= 3

\* C16: a call that does not probe m_storage, because one of its programs was
\* compiled by this very call, does what a call that always probes would do:
\* its key is not in m_storage, so the probe would miss, build_pipeline is
\* called once for the key, and the table afterwards is the table before with
\* the returned pipeline added under the key.
C16_SkippedProbeWouldMiss ==
    [][(/\ ret'.op = GetOrBuild
        /\ ~(ret'.fp_preexisting /\ ret'.vp_preexisting))
       => \E key \in {pipeline_key(ret'.vp_id, ret'.fp_id, ret'.props)} :
              /\ storage_find(m_storage, key) = {}
              /\ key \notin DOMAIN m_storage
              /\ ret'.built
              /\ ret'.key = key
              /\ build_calls' = MapPut(build_calls, key, 1)
              /\ m_storage' = MapPut(m_storage, key, ret'.pipeline)]_vars

\* the probe was skipped for a new fragment program while the table held an
\* entry with the same vertex program and properties
C16_Witness ==
    /\ ret.op = GetOrBuild
    /\ ret.vp_preexisting
    /\ ~ret.fp_preexisting
    /\ \E k \in DOMAIN m_storage :
           /\ k # ret.key
           /\ k.vertex_program_id = ret.vp_id
           /\ k.properties = ret.props

\* the identities of the records of a stage cache
RecordIds(cache) == {cache[k].id : k \in DOMAIN cache}

\* C18: every stored pipeline key names a vertex record by its
\* vertex_program_id and a fragment record by its fragment_program_id; the two
\* identities differ and both are smaller than m_next_id.
C18_KeysNameRecords ==
    \A key \in DOMAIN m_storage :
        /\ key.vertex_program_id \in RecordIds(m_vertex_shader_cache)
        /\ key.fragment_program_id \in RecordIds(m_fragment_shader_cache)
        /\ key.vertex_program_id # key.fragment_program_id
        /\ key.vertex_program_id < m_next_id
        /\ key.fragment_program_id < m_next_id

\* two keys, one of a fragment program compiled before the vertex program it
\* is linked with
C18_Witness ==
    \E k1, k2 \in DOMAIN m_storage :
        /\ k1 # k2
        /\ k1.fragment_program_id < k1.vertex_program_id

\* C19: m_next_id is the number of vertex records plus the number of fragment
\* records; a call takes one identity and adds one record for each of its
\* programs that it compiled, and no other step takes an identity or adds a
\* record.
C19_CounterCountsRecords ==
    /\ [](/\ m_next_id = Cardinality(DOMAIN m_vertex_shader_cache)
                             + Cardinality(DOMAIN m_fragment_shader_cache)
          /\ m_next_id = Len(recompile_log))
    /\ [][/\ ret'.op = GetOrBuild =>
                 /\ Cardinality(DOMAIN m_vertex_shader_cache')
                        = Cardinality(DOMAIN m_vertex_shader_cache)
                              + (IF ret'.vp_preexisting THEN 0 ELSE 1)
                 /\ Cardinality(DOMAIN m_fragment_shader_cache')
                        = Cardinality(DOMAIN m_fragment_shader_cache)
                              + (IF ret'.fp_preexisting THEN 0 ELSE 1)
                 /\ m_next_id' = m_next_id + (IF ret'.vp_preexisting THEN 0 ELSE 1)
                                           + (IF ret'.fp_preexisting THEN 0 ELSE 1)
          /\ ret'.op # GetOrBuild =>
                 UNCHANGED <<m_next_id, m_vertex_shader_cache,
                             m_fragment_shader_cache>>]_vars

\* a call with a vertex hit and a fragment miss took the third identity
C19_Witness ==
    /\ ret.op = GetOrBuild
    /\ ret.vp_preexisting
    /\ ~ret.fp_preexisting
    /\ ret.fp_id = 2
    /\ m_next_id = 3

\* two calls of a recompile collaborator were handed the same identity
SameIdentityTwice ==
    \E i, j \in DOMAIN recompile_log :
        /\ i # j
        /\ recompile_log[i].id = recompile_log[j].id
        /\ <<recompile_log[i].stage, recompile_log[i].binary>>
               # <<recompile_log[j].stage, recompile_log[j].binary>>

\* a recompile collaborator was called twice for one binary of a stage
RecompiledTwice ==
    \E i, j \in DOMAIN recompile_log :
        /\ i # j
        /\ recompile_log[i].stage = recompile_log[j].stage
        /\ recompile_log[i].binary = recompile_log[j].binary

\* build_pipeline was called twice for one key
BuiltTwice == \E key \in DOMAIN build_calls : build_calls[key] >= 2

\* C17: with two threads in getGraphicPipelineState and no lock around the
\* calls, states are reached where two programs were given one identity (an
\* update of m_next_id was lost) and where a collaborator ran twice for one
\* key; when every call runs under the callers' mutex, no such state is
\* reached.
C17_SerializedCallsSafe ==
    mutex # "unused" => ~(SameIdentityTwice \/ RecompiledTwice \/ BuiltTwice)

\* without the mutex: both threads compiled the same vertex binary, two
\* programs have one identity, and one pipeline was built twice
C17_Witness ==
    /\ mutex = "unused"
    /\ SameIdentityTwice
    /\ RecompiledTwice
    /\ BuiltTwice
    /\ \A t \in Threads : pc[t] = "done"

\* C20: a key whose collaborator call did not complete has no record: no
\* vertex or fragment record and no pipeline entry is stored under it, and a
\* later call with the same inputs does not report its program as preexisting
\* or return its pipeline without building, until a collaborator call for the
\* key completes.
C20_FailedCallLeavesNoRecord ==
    /\ \A u \in unfinished :
           /\ u[1] = "vertex" => u[2] \notin DOMAIN m_vertex_shader_cache
           /\ u[1] = "fragment" => u[2] \notin DOMAIN m_fragment_shader_cache
           /\ u[1] = "pipeline" => u[2] \notin DOMAIN m_storage
    /\ ret.op = GetOrBuild =>
           /\ ret.vp_preexisting => <<"vertex", ret.vp>> \notin unfinished
           /\ ret.fp_preexisting => <<"fragment", ret.fp>> \notin unfinished
           /\ ~ret.built => <<"pipeline", ret.key>> \notin unfinished

====
